---- MODULE Spec2Model ----
(***************************************************************************)
(* Instruction representation of the TurboFan backend:                     *)
(*   src/src/compiler/instruction.cc  (InstructionSequence, PointerMap,    *)
(*                                     ParallelMove, operand caches)       *)
(*   src/src/compiler/schedule.h      (BasicBlock, Schedule)               *)
(*                                                                         *)
(* The state machines of the module:                                       *)
(*   Spec          one InstructionSequence and the blocks it fills         *)
(*   SpecBlocks    the same sequence, block layout calls and GetBasicBlock *)
(*   SpecPM        one PointerMap                                          *)
(*   SpecMove      one ParallelMove                                        *)
(*   SpecCache     threads setting up the process-wide operand caches      *)
(*   SpecCacheSeq  set-up and tear-down of the caches on one thread        *)
(*   SpecSched     one Schedule under construction                         *)
(*   SpecLoop      RPO numbers, loop ends and LoopContains                 *)
(*   SpecDump      a sequence that is built, numbered and dumped           *)
(* Instruction indices are 0-based as in the code; TLA+ sequences are      *)
(* 1-based, so InstructionAt(i) reads instructions_[i + 1].                *)
(***************************************************************************)
EXTENDS Integers, Sequences, FiniteSets, TLC

VARIABLES
  debug,                    \* build with DCHECKs enabled (debug) or compiled out
  aborted,                  \* a failed DCHECK/CHECK has ended the process
  calls,                    \* number of API calls made so far
  last,                     \* the latest call: [op, arg, ret]
  instructions_,            \* InstructionSequence::instructions_
  pointer_map_,             \* Instruction::pointer_map_ of every instruction object
  pointer_maps_,            \* InstructionSequence::pointer_maps_
  parallel_moves_,          \* GapInstruction::parallel_moves_ of every gap object
  node_map_,                \* InstructionSequence::node_map_
  next_virtual_register_,   \* InstructionSequence::next_virtual_register_
  references_,              \* InstructionSequence::references_
  doubles_,                 \* InstructionSequence::doubles_
  deoptimization_entries_,  \* InstructionSequence::deoptimization_entries_
  code_start_,              \* BasicBlock::code_start_ of every block
  code_end_,                \* BasicBlock::code_end_ of every block
  pointer_operands_,        \* PointerMap::pointer_operands_   (SpecPM)
  untagged_operands_,       \* PointerMap::untagged_operands_  (SpecPM)
  move_operands_,           \* ParallelMove::move_operands_    (SpecMove)
  cache,                    \* SubKindOperand<kind, n>::cache of every kind (SpecCache)
  arrays,                   \* the arrays allocated by new SubKindOperand[n]
  pc,                       \* where every thread stands in SetUpCaches
  thread_kind,              \* the entry of the operand list a thread is setting up
  thread_i,                 \* the loop variable i of a thread's SetUpCache
  setups,                   \* number of SetUpCaches calls started so far
  all_blocks_,              \* Schedule::all_blocks_ with the fields of every block
  nodeid_to_block_,         \* Schedule::nodeid_to_block_      (SpecSched)
  rpo_number_,              \* BasicBlock::rpo_number_ of every block
  loop_end_,                \* BasicBlock::loop_end_ of every block
  rpo_order_                \* Schedule::rpo_order_

seqVars  == <<instructions_, pointer_map_, pointer_maps_, parallel_moves_,
              node_map_, next_virtual_register_, references_, doubles_,
              deoptimization_entries_, code_start_, code_end_>>
pmVars   == <<pointer_operands_, untagged_operands_>>
moveVars == <<move_operands_>>
cacheVars == <<cache, arrays, pc, thread_kind, thread_i, setups>>
schedVars == <<all_blocks_, nodeid_to_block_>>
rpoVars   == <<rpo_number_, loop_end_, rpo_order_>>
vars     == <<debug, aborted, calls, last, seqVars, pmVars, moveVars, cacheVars, schedVars,
              rpoVars>>

-----------------------------------------------------------------------------
(* Bounds of the model *)

\* API calls made on the InstructionSequence in one behaviour
MaxCalls == 4
\* calls made on the PointerMap in one behaviour
MaxPMCalls == 4
\* moves held by the ParallelMove
MaxMoves == 2
\* SetUpCaches and TearDownCaches calls made in one behaviour
MaxSetUps == 4
\* elements of one operand cache (the template parameter of SubKindOperand)
kNumCachedOperands == 2
\* building calls made on the Schedule in one behaviour
MaxSchedCalls == 4
\* calls of the numbering pass and loop queries in one behaviour
MaxRpoCalls == 6
\* the largest RPO number and loop end handed out
MaxRpo == 1

-----------------------------------------------------------------------------
(* Objects handed to the API *)

\* Instruction objects, one per combination of IsControl() / NeedsPointerMap()
Instrs == {"plain", "call", "jump", "calljump"}
Blocks == {"B0", "B1"}
Nodes == {"n0", "n1"}
VirtualRegisters == {0, 1}
Descriptors == {"fsd_a", "fsd_b"}
NoBlock == "none"
NoArg == "none"
\* a call that returned nothing (void, or ended by a failed DCHECK)
NoRet == "void"
\* a NULL PointerMap*; pointer maps are named by their position in pointer_maps_
NULL == 0

\* Operand objects: addr is the object's identity, kind and index its value
Operand(k, i, a) == [kind |-> k, index |-> i, addr |-> a]
Operands ==
  { Operand("REGISTER", 0, 1), Operand("REGISTER", 0, 2),
    Operand("STACK_SLOT", 1, 3), Operand("STACK_SLOT", -1, 4),
    Operand("DOUBLE_REGISTER", 0, 5), Operand("DOUBLE_STACK_SLOT", 1, 6) }
\* the operands the allocator passes to AddGapMove in this model
GapOperands == { o \in Operands : o.addr \in {1, 3} }

IsStackSlot(op) == op.kind = "STACK_SLOT"
IsDoubleRegister(op) == op.kind = "DOUBLE_REGISTER"
IsDoubleStackSlot(op) == op.kind = "DOUBLE_STACK_SLOT"
\* InstructionOperand::Equals: structural, kind and index
Equals(a, b) == a.kind = b.kind /\ a.index = b.index

IsControl(instr) == instr \in {"jump", "calljump"}
NeedsPointerMap(instr) == instr \in {"call", "calljump"}

-----------------------------------------------------------------------------
(* Entries of instructions_ : pointers to objects *)

InstrEntry(instr) == [kind |-> "instr", id |-> instr, gap |-> 0, block |-> NoBlock]
\* GapInstruction::New: the g-th gap object allocated by this sequence
GapEntry(g) == [kind |-> "gap", id |-> "gap", gap |-> g, block |-> NoBlock]
\* BlockStartInstruction::New(zone, block): a gap that knows its block
BlockStartEntry(g, block) == [kind |-> "blockstart", id |-> "blockstart", gap |-> g, block |-> block]

IsGapMoves(e) == e.kind \in {"gap", "blockstart"}
IsBlockStart(e) == e.kind = "blockstart"

InnerPositions == {"BEFORE", "START", "END", "AFTER"}
\* a gap object as constructed: four NULL parallel-move slots
NewGap == [p \in InnerPositions |-> [created |-> FALSE, moves |-> << >>]]

\* a PointerMap as constructed by PointerMap(zone)
NewPointerMap == [instruction_position |-> -1, pointer_operands |-> << >>, untagged_operands |-> << >>]

InstructionAt(index) == instructions_[index + 1]
size == Len(instructions_)

Call(op, arg, ret) == [op |-> op, arg |-> arg, ret |-> ret]

-----------------------------------------------------------------------------
(* InstructionSequence::AddInstruction, instruction.cc:373-388 *)

\* the two push_back calls around `index`, lines 376-379
PushInstructionAfterOnly(list, entry, gap, control) == list \o <<entry, gap>>
PushInstructionGapFirst(list, entry, gap, control) ==
  IF control THEN <<gap>> \o list \o <<entry>> ELSE list \o <<entry, gap>>
PushInstruction(list, entry, gap, control) ==
  IF control THEN list \o <<gap, entry>> ELSE list \o <<entry, gap>>

\* int index = instructions_.size(), taken after the control gap was pushed
InstructionIndexBeforeGap(list, control) == Len(list)
InstructionIndex(list, control) ==
  IF control THEN Len(list) + 1 ELSE Len(list)

\* lines 382-385: the map created for the instruction stored at `index`
AttachPointerMap(maps, index) ==
  Append(maps, [NewPointerMap EXCEPT !.instruction_position = index])

AddInstruction(instr, block) ==
  /\ ~aborted /\ calls < MaxCalls
  /\ calls' = calls + 1
  /\ LET g == Len(parallel_moves_) + 1
         index == InstructionIndex(instructions_, IsControl(instr))
     IN /\ instructions_' = PushInstruction(instructions_, InstrEntry(instr),
                                            GapEntry(g), IsControl(instr))
        /\ parallel_moves_' = Append(parallel_moves_, NewGap)
        /\ IF NeedsPointerMap(instr)
           THEN IF debug /\ pointer_map_[instr] # NULL
                THEN \* DCHECK(instr->pointer_map() == NULL) fails
                     /\ aborted' = TRUE
                     /\ last' = Call("AddInstruction", instr, NoRet)
                     /\ UNCHANGED <<pointer_map_, pointer_maps_>>
                ELSE /\ pointer_maps_' = AttachPointerMap(pointer_maps_, index)
                     /\ pointer_map_' = [pointer_map_ EXCEPT ![instr] = Len(pointer_maps_) + 1]
                     /\ last' = Call("AddInstruction", instr, index)
                     /\ UNCHANGED aborted
           ELSE /\ last' = Call("AddInstruction", instr, index)
                /\ UNCHANGED <<aborted, pointer_map_, pointer_maps_>>
  /\ UNCHANGED <<debug, node_map_, next_virtual_register_, references_, doubles_,
                 deoptimization_entries_, code_start_, code_end_,
                 pmVars, moveVars, cacheVars, schedVars, rpoVars>>

-----------------------------------------------------------------------------
(* InstructionSequence::StartBlock / EndBlock, instruction.cc:358-370 *)

StartBlockCodeStartAfterPush(block) ==
  /\ ~aborted /\ calls < MaxCalls
  /\ calls' = calls + 1
  /\ code_start_' = [code_start_ EXCEPT ![block] = size + 2]
  /\ LET b == Len(parallel_moves_) + 1
         g == Len(parallel_moves_) + 2
     IN /\ instructions_' = PushInstruction(instructions_, BlockStartEntry(b, block),
                                            GapEntry(g), FALSE)
        /\ parallel_moves_' = parallel_moves_ \o <<NewGap, NewGap>>
  /\ last' = Call("StartBlock", block, NoRet)
  /\ UNCHANGED <<debug, aborted, pointer_map_, pointer_maps_, node_map_,
                 next_virtual_register_, references_, doubles_,
                 deoptimization_entries_, code_end_,
                 pmVars, moveVars, cacheVars, schedVars, rpoVars>>

StartBlock(block) ==
  /\ ~aborted /\ calls < MaxCalls
  /\ calls' = calls + 1
  /\ code_start_' = [code_start_ EXCEPT ![block] = size]
  /\ LET b == Len(parallel_moves_) + 1   \* BlockStartInstruction::New
         g == Len(parallel_moves_) + 2   \* GapInstruction::New in AddInstruction
     IN /\ instructions_' = PushInstruction(instructions_, BlockStartEntry(b, block),
                                            GapEntry(g), FALSE)
        /\ parallel_moves_' = parallel_moves_ \o <<NewGap, NewGap>>
  /\ last' = Call("StartBlock", block, NoRet)
  /\ UNCHANGED <<debug, aborted, pointer_map_, pointer_maps_, node_map_,
                 next_virtual_register_, references_, doubles_,
                 deoptimization_entries_, code_end_,
                 pmVars, moveVars, cacheVars, schedVars, rpoVars>>

EndBlockLastIndex(block) ==
  /\ ~aborted /\ calls < MaxCalls
  /\ calls' = calls + 1
  /\ last' = Call("EndBlock", block, NoRet)
  /\ LET end == size - 1
     IN IF debug /\ ~(code_start_[block] >= 0 /\ code_start_[block] < end)
        THEN /\ aborted' = TRUE
             /\ UNCHANGED code_end_
        ELSE /\ code_end_' = [code_end_ EXCEPT ![block] = end]
             /\ UNCHANGED aborted
  /\ UNCHANGED <<debug, instructions_, pointer_map_, pointer_maps_, parallel_moves_,
                 node_map_, next_virtual_register_, references_, doubles_,
                 deoptimization_entries_, code_start_,
                 pmVars, moveVars, cacheVars, schedVars, rpoVars>>

EndBlock(block) ==
  /\ ~aborted /\ calls < MaxCalls
  /\ calls' = calls + 1
  /\ last' = Call("EndBlock", block, NoRet)
  /\ LET end == size
     IN IF debug /\ ~(code_start_[block] >= 0 /\ code_start_[block] < end)
        THEN \* DCHECK(block->code_start() >= 0 && block->code_start() < end) fails
             /\ aborted' = TRUE
             /\ UNCHANGED code_end_
        ELSE /\ code_end_' = [code_end_ EXCEPT ![block] = end]
             /\ UNCHANGED aborted
  /\ UNCHANGED <<debug, instructions_, pointer_map_, pointer_maps_, parallel_moves_,
                 node_map_, next_virtual_register_, references_, doubles_,
                 deoptimization_entries_, code_start_,
                 pmVars, moveVars, cacheVars, schedVars, rpoVars>>

-----------------------------------------------------------------------------
(* InstructionSequence::GetVirtualRegister, instruction.cc:340-345 *)

\* NextVirtualRegister(): return next_virtual_register_++
NextVirtualRegister == next_virtual_register_

GetVirtualRegisterAlwaysFresh(node) ==
  /\ ~aborted /\ calls < MaxCalls
  /\ calls' = calls + 1
  /\ node_map_' = [node_map_ EXCEPT ![node] = NextVirtualRegister]
  /\ next_virtual_register_' = next_virtual_register_ + 1
  /\ last' = Call("GetVirtualRegister", node, node_map_'[node])
  /\ UNCHANGED <<debug, aborted, instructions_, pointer_map_, pointer_maps_,
                 parallel_moves_, references_, doubles_, deoptimization_entries_,
                 code_start_, code_end_, pmVars, moveVars, cacheVars, schedVars, rpoVars>>

GetVirtualRegister(node) ==
  /\ ~aborted /\ calls < MaxCalls
  /\ calls' = calls + 1
  /\ IF node_map_[node] = -1
     THEN /\ node_map_' = [node_map_ EXCEPT ![node] = NextVirtualRegister]
          /\ next_virtual_register_' = next_virtual_register_ + 1
     ELSE UNCHANGED <<node_map_, next_virtual_register_>>
  /\ last' = Call("GetVirtualRegister", node, node_map_'[node])
  /\ UNCHANGED <<debug, aborted, instructions_, pointer_map_, pointer_maps_,
                 parallel_moves_, references_, doubles_, deoptimization_entries_,
                 code_start_, code_end_, pmVars, moveVars, cacheVars, schedVars, rpoVars>>

-----------------------------------------------------------------------------
(* MarkAsReference / MarkAsDouble, instruction.cc:403-420 *)

IsReference(virtual_register) == virtual_register \in references_
IsDouble(virtual_register) == virtual_register \in doubles_

MarkAsReferenceReplacing(virtual_register) ==
  /\ ~aborted /\ calls < MaxCalls
  /\ calls' = calls + 1
  /\ references_' = {virtual_register}
  /\ last' = Call("MarkAsReference", virtual_register, NoRet)
  /\ UNCHANGED <<debug, aborted, instructions_, pointer_map_, pointer_maps_,
                 parallel_moves_, node_map_, next_virtual_register_, doubles_,
                 deoptimization_entries_, code_start_, code_end_,
                 pmVars, moveVars, cacheVars, schedVars, rpoVars>>

MarkAsReference(virtual_register) ==
  /\ ~aborted /\ calls < MaxCalls
  /\ calls' = calls + 1
  /\ references_' = references_ \cup {virtual_register}
  /\ last' = Call("MarkAsReference", virtual_register, NoRet)
  /\ UNCHANGED <<debug, aborted, instructions_, pointer_map_, pointer_maps_,
                 parallel_moves_, node_map_, next_virtual_register_, doubles_,
                 deoptimization_entries_, code_start_, code_end_,
                 pmVars, moveVars, cacheVars, schedVars, rpoVars>>

MarkAsDoubleExclusive(virtual_register) ==
  /\ ~aborted /\ calls < MaxCalls
  /\ calls' = calls + 1
  /\ doubles_' = doubles_ \cup {virtual_register}
  /\ references_' = references_ \ {virtual_register}
  /\ last' = Call("MarkAsDouble", virtual_register, NoRet)
  /\ UNCHANGED <<debug, aborted, instructions_, pointer_map_, pointer_maps_,
                 parallel_moves_, node_map_, next_virtual_register_,
                 deoptimization_entries_, code_start_, code_end_,
                 pmVars, moveVars, cacheVars, schedVars, rpoVars>>

MarkAsDouble(virtual_register) ==
  /\ ~aborted /\ calls < MaxCalls
  /\ calls' = calls + 1
  /\ doubles_' = doubles_ \cup {virtual_register}
  /\ last' = Call("MarkAsDouble", virtual_register, NoRet)
  /\ UNCHANGED <<debug, aborted, instructions_, pointer_map_, pointer_maps_,
                 parallel_moves_, node_map_, next_virtual_register_, references_,
                 deoptimization_entries_, code_start_, code_end_,
                 pmVars, moveVars, cacheVars, schedVars, rpoVars>>

-----------------------------------------------------------------------------
(* InstructionSequence::AddGapMove, instruction.cc:423-427 *)

\* GapAt(index): the gap object stored at index
GapAt(index) == InstructionAt(index).gap

\* GetOrCreateParallelMove(pos)->AddMove(from, to)
AddMoveTo(gap, pos, from, to) ==
  [gap EXCEPT ![pos] = [created |-> TRUE,
                        moves |-> Append(@.moves, [source |-> from, destination |-> to])]]

\* the arguments of an AddGapMove call
GapMoveArgs(index, from, to) == [index |-> index, from |-> from, to |-> to]

AddGapMoveEndSlot(index, from, to) ==
  /\ ~aborted /\ calls < MaxCalls
  /\ index \in 0..(size - 1)
  /\ IsGapMoves(InstructionAt(index))
  /\ calls' = calls + 1
  /\ parallel_moves_' = [parallel_moves_ EXCEPT
        ![GapAt(index)] = AddMoveTo(@, "END", from, to)]
  /\ last' = Call("AddGapMove", GapMoveArgs(index, from, to), NoRet)
  /\ UNCHANGED <<debug, aborted, instructions_, pointer_map_, pointer_maps_,
                 node_map_, next_virtual_register_, references_, doubles_,
                 deoptimization_entries_, code_start_, code_end_,
                 pmVars, moveVars, cacheVars, schedVars, rpoVars>>

AddGapMove(index, from, to) ==
  /\ ~aborted /\ calls < MaxCalls
  /\ index \in 0..(size - 1)
  /\ IsGapMoves(InstructionAt(index))
  /\ calls' = calls + 1
  /\ parallel_moves_' = [parallel_moves_ EXCEPT
        ![GapAt(index)] = AddMoveTo(@, "START", from, to)]
  /\ last' = Call("AddGapMove", GapMoveArgs(index, from, to), NoRet)
  /\ UNCHANGED <<debug, aborted, instructions_, pointer_map_, pointer_maps_,
                 node_map_, next_virtual_register_, references_, doubles_,
                 deoptimization_entries_, code_start_, code_end_,
                 pmVars, moveVars, cacheVars, schedVars, rpoVars>>

-----------------------------------------------------------------------------
(* AddFrameStateDescriptor / GetFrameStateDescriptor, instruction.cc:430-445 *)

AddFrameStateDescriptorIdAfterPush(descriptor) ==
  /\ ~aborted /\ calls < MaxCalls
  /\ calls' = calls + 1
  /\ deoptimization_entries_' = Append(deoptimization_entries_, descriptor)
  /\ last' = Call("AddFrameStateDescriptor", descriptor, Len(deoptimization_entries_'))
  /\ UNCHANGED <<debug, aborted, instructions_, pointer_map_, pointer_maps_,
                 parallel_moves_, node_map_, next_virtual_register_, references_,
                 doubles_, code_start_, code_end_,
                 pmVars, moveVars, cacheVars, schedVars, rpoVars>>

AddFrameStateDescriptor(descriptor) ==
  /\ ~aborted /\ calls < MaxCalls
  /\ calls' = calls + 1
  /\ LET deoptimization_id == Len(deoptimization_entries_)
     IN /\ deoptimization_entries_' = Append(deoptimization_entries_, descriptor)
        /\ last' = Call("AddFrameStateDescriptor", descriptor, deoptimization_id)
  /\ UNCHANGED <<debug, aborted, instructions_, pointer_map_, pointer_maps_,
                 parallel_moves_, node_map_, next_virtual_register_, references_,
                 doubles_, code_start_, code_end_,
                 pmVars, moveVars, cacheVars, schedVars, rpoVars>>

GetFrameStateDescriptor(state_id) == deoptimization_entries_[state_id + 1]
GetFrameStateDescriptorCount == Len(deoptimization_entries_)

-----------------------------------------------------------------------------
(* InstructionSequence::GetBasicBlock, instruction.cc:391-400 *)

\* the scan has left the list: DCHECK_LE(0, instruction_index) fails, or, with
\* the DCHECK compiled out, InstructionAt reads before the first entry
OutOfBounds == "out of bounds"

\* the loop of lines 393-399, entered with instruction_index
RECURSIVE GetBasicBlockLoopStepFirst(_)
GetBasicBlockLoopStepFirst(instruction_index) ==
  IF instruction_index - 1 < 0 THEN OutOfBounds
  ELSE IF IsBlockStart(InstructionAt(instruction_index - 1))
       THEN InstructionAt(instruction_index - 1).block
       ELSE GetBasicBlockLoopStepFirst(instruction_index - 1)

RECURSIVE GetBasicBlockLoop(_)
GetBasicBlockLoop(instruction_index) ==
  IF instruction_index < 0 THEN OutOfBounds
  ELSE IF IsBlockStart(InstructionAt(instruction_index))
       THEN InstructionAt(instruction_index).block
       ELSE GetBasicBlockLoop(instruction_index - 1)

\* what a read before the first entry may give: a failed DCHECK in a debug
\* build, otherwise a crash or any block
OutOfBoundsOutcomes == IF debug THEN {NoRet} ELSE Blocks \cup {NoRet}

GetBasicBlock(instruction_index) ==
  /\ ~aborted /\ calls < MaxCalls
  /\ instruction_index \in 0..(size - 1)
  /\ calls' = calls + 1
  /\ LET found == GetBasicBlockLoop(instruction_index)
     IN \E ret \in (IF found = OutOfBounds THEN OutOfBoundsOutcomes ELSE {found}) :
          /\ last' = Call("GetBasicBlock", instruction_index, ret)
          /\ aborted' = (ret = NoRet)
  /\ UNCHANGED <<debug, seqVars, pmVars, moveVars, cacheVars, schedVars, rpoVars>>

-----------------------------------------------------------------------------
(* The process-wide operand caches, instruction.cc:61-96.                  *)
(* SetUpCaches runs SetUpCache for every entry of INSTRUCTION_OPERAND_LIST; *)
(* the code takes no lock, so the statements of two threads interleave.     *)

Threads == {"t1", "t2"}
\* the entries of INSTRUCTION_OPERAND_LIST that have a cache in this model
OperandList == <<"STACK_SLOT", "REGISTER">>
OperandKinds == { OperandList[n] : n \in DOMAIN OperandList }

\* an element of new SubKindOperand[n] before ConvertTo has run on it
NotConverted == [kind |-> "INVALID", index |-> -1]
\* deleted: delete[] has released the array
NewArray(kind) ==
  [kind |-> kind, deleted |-> FALSE,
   elems |-> [i \in 0..(kNumCachedOperands - 1) |-> NotConverted]]

\* the state before any SetUpCaches call: every cache pointer is NULL
NoCache ==
  /\ cache = [kind \in OperandKinds |-> NULL]
  /\ arrays = << >>
  /\ pc = [t \in Threads |-> "idle"]
  /\ thread_kind = [t \in Threads |-> 1]
  /\ thread_i = [t \in Threads |-> 0]
  /\ setups = 0

kOperandKind(t) == OperandList[thread_kind[t]]

\* InstructionOperand::SetUpCaches is entered: the first SetUpCache begins
SetUpCaches(t) ==
  /\ pc[t] = "idle" /\ setups < MaxSetUps
  /\ setups' = setups + 1
  /\ thread_kind' = [thread_kind EXCEPT ![t] = 1]
  /\ pc' = [pc EXCEPT ![t] = "test"]
  /\ UNCHANGED <<cache, arrays, thread_i>>
  /\ UNCHANGED <<debug, aborted, calls, last, seqVars, pmVars, moveVars, schedVars, rpoVars>>

\* SetUpCache returns: the next entry of the list, or SetUpCaches returns
Return(t) ==
  IF thread_kind[t] < Len(OperandList)
  THEN /\ thread_kind' = [thread_kind EXCEPT ![t] = @ + 1]
       /\ pc' = [pc EXCEPT ![t] = "test"]
  ELSE /\ pc' = [pc EXCEPT ![t] = "idle"]
       /\ UNCHANGED thread_kind

\* if (cache) return;
TestCache(t) ==
  /\ pc[t] = "test"
  /\ IF cache[kOperandKind(t)] # NULL
     THEN Return(t)
     ELSE /\ pc' = [pc EXCEPT ![t] = "new"]
          /\ UNCHANGED thread_kind
  /\ UNCHANGED <<cache, arrays, thread_i, setups>>
  /\ UNCHANGED <<debug, aborted, calls, last, seqVars, pmVars, moveVars, schedVars, rpoVars>>

\* cache = new SubKindOperand[kNumCachedOperands];
NewCache(t) ==
  /\ pc[t] = "new"
  /\ arrays' = Append(arrays, NewArray(kOperandKind(t)))
  /\ cache' = [cache EXCEPT ![kOperandKind(t)] = Len(arrays')]
  /\ thread_i' = [thread_i EXCEPT ![t] = 0]
  /\ pc' = [pc EXCEPT ![t] = "for"]
  /\ UNCHANGED <<thread_kind, setups>>
  /\ UNCHANGED <<debug, aborted, calls, last, seqVars, pmVars, moveVars, schedVars, rpoVars>>

\* InstructionOperand::ConvertTo(kind, index): the operand takes kind and index
ConvertTo(kind, index) == [kind |-> kind, index |-> index]

\* for (i = 0; i < kNumCachedOperands; i++) cache[i].ConvertTo(kOperandKind, i);
\* every iteration reads the pointer cache again
ConvertLoop(t) ==
  /\ pc[t] = "for"
  /\ IF thread_i[t] < kNumCachedOperands
     THEN /\ arrays' = [arrays EXCEPT ![cache[kOperandKind(t)]].elems[thread_i[t]] =
                           ConvertTo(kOperandKind(t), thread_i[t])]
          /\ thread_i' = [thread_i EXCEPT ![t] = @ + 1]
          /\ UNCHANGED <<pc, thread_kind>>
     ELSE /\ Return(t)
          /\ UNCHANGED <<arrays, thread_i>>
  /\ UNCHANGED <<cache, setups>>
  /\ UNCHANGED <<debug, aborted, calls, last, seqVars, pmVars, moveVars, schedVars, rpoVars>>

\* delete[] cache, for every entry of the operand list; delete[] NULL does nothing
DeleteCaches(heap) ==
  [a \in DOMAIN heap |->
     IF \E kind \in OperandKinds : cache[kind] = a
     THEN [heap[a] EXCEPT !.deleted = TRUE]
     ELSE heap[a]]

TearDownCachesDangling(t) ==
  /\ pc[t] = "idle" /\ setups < MaxSetUps
  /\ setups' = setups + 1
  /\ arrays' = DeleteCaches(arrays)
  /\ last' = Call("TearDownCaches", t, NoRet)
  /\ UNCHANGED <<cache, pc, thread_kind, thread_i>>
  /\ UNCHANGED <<debug, aborted, calls, seqVars, pmVars, moveVars, schedVars, rpoVars>>

\* InstructionOperand::TearDownCaches: delete[] cache; cache = NULL; for every
\* entry of the operand list
TearDownCaches(t) ==
  /\ pc[t] = "idle" /\ setups < MaxSetUps
  /\ setups' = setups + 1
  /\ arrays' = DeleteCaches(arrays)
  /\ cache' = [kind \in OperandKinds |-> NULL]
  /\ last' = Call("TearDownCaches", t, NoRet)
  /\ UNCHANGED <<pc, thread_kind, thread_i>>
  /\ UNCHANGED <<debug, aborted, calls, seqVars, pmVars, moveVars, schedVars, rpoVars>>

\* the one thread that sets up and tears down the caches at startup and
\* shutdown
MainThread == "t1"

NextCacheSeq ==
  \/ SetUpCaches(MainThread)
  \/ TestCache(MainThread)
  \/ NewCache(MainThread)
  \/ ConvertLoop(MainThread)
  \/ TearDownCaches(MainThread)

NextCache ==
  \E t \in Threads :
     \/ SetUpCaches(t)
     \/ TestCache(t)
     \/ NewCache(t)
     \/ ConvertLoop(t)

-----------------------------------------------------------------------------
(* Schedule and BasicBlock, schedule.h:30-242.  The bodies of the building *)
(* calls are in schedule.cc; they follow the CFG-construction contract.     *)
(* A block is identified by its position in all_blocks_.                    *)

NoNode == "no node"
\* BasicBlock(zone, id): no nodes, control not initialized, not linked
NewBlock == [nodes_ |-> << >>, control_ |-> "kNone", control_input_ |-> NoNode,
             successors_ |-> << >>, predecessors_ |-> << >>]

\* Schedule(zone): no blocks, no node has a block
NoSchedule ==
  /\ all_blocks_ = << >>
  /\ nodeid_to_block_ = [node \in Nodes |-> NULL]

BlockIds == DOMAIN all_blocks_

\* Schedule::block(node): the block which contains node, if any
BlockOf(node) == nodeid_to_block_[node]

\* BasicBlock::AddSuccessor / AddPredecessor
BlockAddSuccessor(blocks, block, successor) ==
  [blocks EXCEPT ![block].successors_ = Append(@, successor)]
BlockAddPredecessor(blocks, block, predecessor) ==
  [blocks EXCEPT ![block].predecessors_ = Append(@, predecessor)]

ScheduleAddSuccessorOneWay(blocks, block, succ) == BlockAddSuccessor(blocks, block, succ)

\* Schedule::AddSuccessor(block, succ): links the two blocks in both directions
ScheduleAddSuccessor(blocks, block, succ) ==
  BlockAddPredecessor(BlockAddSuccessor(blocks, block, succ), succ, block)

\* a building call that returns
SchedCall(op, arg, ret) ==
  /\ calls' = calls + 1
  /\ last' = Call(op, arg, ret)
  /\ UNCHANGED <<debug, aborted, seqVars, pmVars, moveVars, cacheVars, rpoVars>>

\* a building call that violates the contract: the job aborts, nothing is built
SchedFatal(op, arg) ==
  /\ calls' = calls + 1
  /\ last' = Call(op, arg, NoRet)
  /\ aborted' = TRUE
  /\ UNCHANGED <<debug, seqVars, pmVars, moveVars, cacheVars, schedVars, rpoVars>>

NewBasicBlock ==
  /\ ~aborted /\ calls < MaxSchedCalls
  /\ Len(all_blocks_) < Cardinality(Blocks)
  /\ all_blocks_' = Append(all_blocks_, NewBlock)
  /\ UNCHANGED nodeid_to_block_
  /\ SchedCall("NewBasicBlock", NoArg, Len(all_blocks_'))

AddSuccessor(block, succ) ==
  /\ ~aborted /\ calls < MaxSchedCalls
  /\ all_blocks_' = ScheduleAddSuccessor(all_blocks_, block, succ)
  /\ UNCHANGED nodeid_to_block_
  /\ SchedCall("AddSuccessor", [block |-> block, succ |-> succ], NoRet)

AddGotoUnchecked(block, succ) ==
  /\ ~aborted /\ calls < MaxSchedCalls
  /\ all_blocks_' = ScheduleAddSuccessor(
                       [all_blocks_ EXCEPT ![block].control_ = "kGoto"], block, succ)
  /\ UNCHANGED nodeid_to_block_
  /\ SchedCall("AddGoto", [block |-> block, succ |-> succ], NoRet)

\* the terminating calls: the control kind is set once, from kNone
AddGoto(block, succ) ==
  /\ ~aborted /\ calls < MaxSchedCalls
  /\ LET arg == [block |-> block, succ |-> succ]
     IN IF all_blocks_[block].control_ # "kNone"
        THEN SchedFatal("AddGoto", arg)
        ELSE /\ all_blocks_' = ScheduleAddSuccessor(
                                  [all_blocks_ EXCEPT ![block].control_ = "kGoto"],
                                  block, succ)
             /\ UNCHANGED nodeid_to_block_
             /\ SchedCall("AddGoto", arg, NoRet)

AddBranchFalseFirst(block, branch, tblock, fblock) ==
  /\ ~aborted /\ calls < MaxSchedCalls
  /\ LET arg == [block |-> block, branch |-> branch, tblock |-> tblock, fblock |-> fblock]
     IN IF all_blocks_[block].control_ # "kNone"
        THEN SchedFatal("AddBranch", arg)
        ELSE /\ all_blocks_' = ScheduleAddSuccessor(
                                  ScheduleAddSuccessor(
                                     [all_blocks_ EXCEPT ![block].control_ = "kBranch",
                                                         ![block].control_input_ = branch],
                                     block, fblock),
                                  block, tblock)
             /\ UNCHANGED nodeid_to_block_
             /\ SchedCall("AddBranch", arg, NoRet)

AddBranch(block, branch, tblock, fblock) ==
  /\ ~aborted /\ calls < MaxSchedCalls
  /\ LET arg == [block |-> block, branch |-> branch, tblock |-> tblock, fblock |-> fblock]
     IN IF all_blocks_[block].control_ # "kNone"
        THEN SchedFatal("AddBranch", arg)
        ELSE /\ all_blocks_' = ScheduleAddSuccessor(
                                  ScheduleAddSuccessor(
                                     [all_blocks_ EXCEPT ![block].control_ = "kBranch",
                                                         ![block].control_input_ = branch],
                                     block, tblock),
                                  block, fblock)
             /\ UNCHANGED nodeid_to_block_
             /\ SchedCall("AddBranch", arg, NoRet)

\* AddReturn and AddThrow: control kind and control input
AddControl(op, control, block, input) ==
  /\ ~aborted /\ calls < MaxSchedCalls
  /\ LET arg == [block |-> block, input |-> input]
     IN IF all_blocks_[block].control_ # "kNone"
        THEN SchedFatal(op, arg)
        ELSE /\ all_blocks_' = [all_blocks_ EXCEPT ![block].control_ = control,
                                                   ![block].control_input_ = input]
             /\ UNCHANGED nodeid_to_block_
             /\ SchedCall(op, arg, NoRet)

AddReturn(block, input) == AddControl("AddReturn", "kReturn", block, input)
AddThrow(block, input) == AddControl("AddThrow", "kThrow", block, input)

\* the node is in the node list of a block
IsAdded(node) ==
  \E b \in BlockIds : \E n \in DOMAIN all_blocks_[b].nodes_ : all_blocks_[b].nodes_[n] = node

\* Schedule::SetBlockForNode
SetBlockForNode(block, node) == [nodeid_to_block_ EXCEPT ![node] = block]

\* PlanNode: the node will belong to block; it is not appended yet
PlanNode(block, node) ==
  /\ ~aborted /\ calls < MaxSchedCalls
  /\ LET arg == [block |-> block, node |-> node]
     IN IF BlockOf(node) # NULL
        THEN SchedFatal("PlanNode", arg)
        ELSE /\ nodeid_to_block_' = SetBlockForNode(block, node)
             /\ UNCHANGED all_blocks_
             /\ SchedCall("PlanNode", arg, NoRet)

AddNodeUnchecked(block, node) ==
  /\ ~aborted /\ calls < MaxSchedCalls
  /\ all_blocks_' = [all_blocks_ EXCEPT ![block].nodes_ = Append(@, node)]
  /\ nodeid_to_block_' = SetBlockForNode(block, node)
  /\ SchedCall("AddNode", [block |-> block, node |-> node], NoRet)

\* AddNode: appends a node that is unscheduled or was planned into this block
AddNode(block, node) ==
  /\ ~aborted /\ calls < MaxSchedCalls
  /\ LET arg == [block |-> block, node |-> node]
     IN IF BlockOf(node) \notin {NULL, block} \/ IsAdded(node)
        THEN SchedFatal("AddNode", arg)
        ELSE /\ all_blocks_' = [all_blocks_ EXCEPT ![block].nodes_ = Append(@, node)]
             /\ nodeid_to_block_' = SetBlockForNode(block, node)
             /\ SchedCall("AddNode", arg, NoRet)

NextSched ==
  \/ NewBasicBlock
  \/ \E block \in BlockIds, succ \in BlockIds : AddSuccessor(block, succ)
  \/ \E block \in BlockIds, succ \in BlockIds : AddGoto(block, succ)
  \/ \E block \in BlockIds, branch \in Nodes, tblock \in BlockIds, fblock \in BlockIds :
        AddBranch(block, branch, tblock, fblock)
  \/ \E block \in BlockIds, input \in Nodes : AddReturn(block, input)
  \/ \E block \in BlockIds, input \in Nodes : AddThrow(block, input)
  \/ \E block \in BlockIds, node \in Nodes : PlanNode(block, node)
  \/ \E block \in BlockIds, node \in Nodes : AddNode(block, node)

-----------------------------------------------------------------------------
(* RPO numbers and loops of the blocks, schedule.h:126-143 and 220.  The   *)
(* numbering pass that calls the setters is outside this component.        *)

\* the numbers a numbering pass hands to the setters in this model
RpoNumbers == 0..MaxRpo

\* before the numbering pass: no RPO number, no loop, empty RPO list
NoRpo ==
  /\ rpo_number_ = [b \in Blocks |-> -1]
  /\ loop_end_ = [b \in Blocks |-> -1]
  /\ rpo_order_ = << >>

\* a call of the numbering pass
RpoCall(op, arg, ret) ==
  /\ ~aborted /\ calls < MaxRpoCalls
  /\ calls' = calls + 1
  /\ last' = Call(op, arg, ret)
  /\ UNCHANGED <<debug, aborted, seqVars, pmVars, moveVars, cacheVars, schedVars>>

set_rpo_number(block, rpo_number) ==
  /\ rpo_number_' = [rpo_number_ EXCEPT ![block] = rpo_number]
  /\ UNCHANGED <<loop_end_, rpo_order_>>
  /\ RpoCall("set_rpo_number", [block |-> block, value |-> rpo_number], NoRet)

set_loop_end(block, loop_end) ==
  /\ loop_end_' = [loop_end_ EXCEPT ![block] = loop_end]
  /\ UNCHANGED <<rpo_number_, rpo_order_>>
  /\ RpoCall("set_loop_end", [block |-> block, value |-> loop_end], NoRet)

IsLoopHeader(block) == loop_end_[block] >= 0

LoopContainsInclusiveEnd(header, block) ==
  rpo_number_[block] >= rpo_number_[header] /\ rpo_number_[block] <= loop_end_[header]

\* header.LoopContains(block), for a loop header
LoopContains(header, block) ==
  rpo_number_[block] >= rpo_number_[header] /\ rpo_number_[block] < loop_end_[header]

\* a caller asks a loop header whether its loop contains a block
CallLoopContains(header, block) ==
  /\ IsLoopHeader(header)
  /\ UNCHANGED rpoVars
  /\ RpoCall("LoopContains", [header |-> header, block |-> block],
             LoopContains(header, block))

NextLoop ==
  \/ \E block \in Blocks, rpo_number \in RpoNumbers : set_rpo_number(block, rpo_number)
  \/ \E block \in Blocks, loop_end \in RpoNumbers : set_loop_end(block, loop_end)
  \/ \E header \in Blocks, block \in Blocks : CallLoopContains(header, block)

-----------------------------------------------------------------------------
(* operator<<(std::ostream&, const InstructionSequence&), instruction.cc:446-510 *)
(* The stream is the list of the items written; immediates and constants    *)
(* are not part of this model.                                              *)

\* rpo_order()->push_back(block), done by the numbering pass
AddToRpoOrder(block) ==
  /\ Len(rpo_order_) < Cardinality(Blocks)
  /\ rpo_order_' = Append(rpo_order_, block)
  /\ UNCHANGED <<rpo_number_, loop_end_>>
  /\ RpoCall("rpo_order()->push_back", block, NoRet)

\* code.BasicBlockCount() and code.BlockAt(i)
BasicBlockCount == Len(rpo_order_)
BlockAt(i) == rpo_order_[i + 1]

\* os << "RPO#" << block->rpo_number() << ": B" << block->id()
Header(block) == [item |-> "RPO#", rpo_number |-> rpo_number_[block], block |-> block]
\* os << "   " << j << ": " << *code.InstructionAt(j)
Line(block, j) == [item |-> "instruction", index |-> j, block |-> block]

\* the DCHECKs of first_instruction_index() and last_instruction_index()
IndexDchecksHold(block) ==
  code_start_[block] >= 0 /\ code_end_[block] > 0 /\ code_end_[block] >= code_start_[block]

\* for (j = first_instruction_index(); j <= last_instruction_index(); j++)
Lines(block) ==
  IF code_start_[block] <= code_end_[block] - 1
  THEN [n \in 1..(code_end_[block] - code_start_[block]) |->
           Line(block, code_start_[block] + n - 1)]
  ELSE << >>

RECURSIVE DumpBlocksCheckLast(_, _)
DumpBlocksCheckLast(i, os) ==
  IF i >= BasicBlockCount THEN [os |-> os, aborted |-> FALSE]
  ELSE LET block == BlockAt(i)
       IN IF debug /\ ~IndexDchecksHold(block)
          THEN [os |-> Append(os, Header(block)), aborted |-> TRUE]
          ELSE IF rpo_number_[block] # i
               THEN [os |-> Append(os, Header(block)) \o Lines(block), aborted |-> TRUE]
               ELSE DumpBlocksCheckLast(i + 1, Append(os, Header(block)) \o Lines(block))

\* for (i = 0; i < code.BasicBlockCount(); i++): the blocks from position i on
RECURSIVE DumpBlocks(_, _)
DumpBlocks(i, os) ==
  IF i >= BasicBlockCount THEN [os |-> os, aborted |-> FALSE]
  ELSE LET block == BlockAt(i)
       IN IF rpo_number_[block] # i
          THEN \* CHECK(block->rpo_number() == i) fails, in every build
               [os |-> Append(os, Header(block)), aborted |-> TRUE]
          ELSE IF debug /\ ~IndexDchecksHold(block)
               THEN [os |-> Append(os, Header(block)), aborted |-> TRUE]
               ELSE DumpBlocks(i + 1, Append(os, Header(block)) \o Lines(block))

\* os << code
Dump ==
  /\ ~aborted /\ calls < MaxRpoCalls
  /\ calls' = calls + 1
  /\ LET out == DumpBlocks(0, << >>)
     IN /\ last' = Call("operator<<", NoArg, out.os)
        /\ aborted' = out.aborted
  /\ UNCHANGED <<debug, seqVars, pmVars, moveVars, cacheVars, schedVars, rpoVars>>

\* a sequence is built, numbered and dumped; EndBlock is called for started
\* blocks, so the index loop of the dump stays inside the instruction list
NextDump ==
  \/ \E block \in Blocks : StartBlock(block)
  \/ AddInstruction("plain", NoBlock)
  \/ \E block \in Blocks : code_start_[block] >= 0 /\ EndBlock(block)
  \/ \E block \in Blocks, rpo_number \in RpoNumbers : set_rpo_number(block, rpo_number)
  \/ \E block \in Blocks : AddToRpoOrder(block)
  \/ Dump

-----------------------------------------------------------------------------
(* The InstructionSequence state machine *)

\* InstructionSequence::InstructionSequence, instruction.cc:319-337, with fresh
\* instruction objects (no pointer map) and fresh blocks (no code range)
Init ==
  /\ debug \in BOOLEAN
  /\ aborted = FALSE
  /\ calls = 0
  /\ last = Call("new", NoArg, NoRet)
  /\ instructions_ = << >>
  /\ pointer_map_ = [i \in Instrs |-> NULL]
  /\ pointer_maps_ = << >>
  /\ parallel_moves_ = << >>
  /\ node_map_ = [n \in Nodes |-> -1]
  /\ next_virtual_register_ = 0
  /\ references_ = {}
  /\ doubles_ = {}
  /\ deoptimization_entries_ = << >>
  /\ code_start_ = [b \in Blocks |-> -1]
  /\ code_end_ = [b \in Blocks |-> -1]
  /\ pointer_operands_ = << >>
  /\ untagged_operands_ = << >>
  /\ move_operands_ = << >>
  /\ NoCache
  /\ NoSchedule
  /\ NoRpo

Next ==
  \/ \E instr \in Instrs : AddInstruction(instr, NoBlock)
  \/ \E block \in Blocks : StartBlock(block)
  \/ \E block \in Blocks : EndBlock(block)
  \/ \E node \in Nodes : GetVirtualRegister(node)
  \/ \E v \in VirtualRegisters : MarkAsReference(v)
  \/ \E v \in VirtualRegisters : MarkAsDouble(v)
  \/ \E index \in 0..(size - 1), from \in GapOperands :
        \E to \in GapOperands \ {from} : AddGapMove(index, from, to)
  \/ \E descriptor \in Descriptors : AddFrameStateDescriptor(descriptor)

Spec == Init /\ [][Next]_vars

\* the calls that lay out blocks, and the query that reads the layout back
NextBlocks ==
  \/ \E instr \in Instrs : AddInstruction(instr, NoBlock)
  \/ \E block \in Blocks : StartBlock(block)
  \/ \E block \in Blocks : EndBlock(block)
  \/ \E index \in 0..(size - 1) : GetBasicBlock(index)

SpecBlocks == Init /\ [][NextBlocks]_vars

\* the threads setting up the operand caches
SpecCache == Init /\ [][NextCache]_vars

\* the life cycle of the operand caches on one thread
SpecCacheSeq == Init /\ [][NextCacheSeq]_vars

\* one Schedule under construction
SpecSched == Init /\ [][NextSched]_vars

\* the numbering pass and the loop queries
SpecLoop == Init /\ [][NextLoop]_vars

\* a sequence that is built, numbered and dumped
SpecDump == Init /\ [][NextDump]_vars

-----------------------------------------------------------------------------
(* PointerMap, instruction.cc:127-153 *)

\* if (op->IsStackSlot() && op->index() < 0) return;
IsArgumentSlot(op) == IsStackSlot(op) /\ op.index < 0
\* the condition of DCHECK(!op->IsDoubleRegister() && !op->IsDoubleStackSlot())
IsDoubleOperand(op) == IsDoubleRegister(op) \/ IsDoubleStackSlot(op)

\* ZoneList::Remove(i), i counted from 0
RemoveAt(list, i) == SubSeq(list, 1, i) \o SubSeq(list, i + 2, Len(list))

\* the loop of RemovePointer, lines 139-144, entered with i
RECURSIVE RemoveLoopNoStepBack(_, _, _)
RemoveLoopNoStepBack(list, i, op) ==
  IF i >= Len(list) THEN list
  ELSE IF Equals(list[i + 1], op)
       THEN RemoveLoopNoStepBack(RemoveAt(list, i), i + 1, op)
       ELSE RemoveLoopNoStepBack(list, i + 1, op)

RECURSIVE RemoveLoop(_, _, _)
RemoveLoop(list, i, op) ==
  IF i >= Len(list) THEN list
  ELSE IF Equals(list[i + 1], op)
       THEN RemoveLoop(RemoveAt(list, i), (i - 1) + 1, op)   \* --i, then ++i
       ELSE RemoveLoop(list, i + 1, op)

RecordPointerNoArgumentCheck(op) ==
  /\ ~aborted /\ calls < MaxPMCalls
  /\ calls' = calls + 1
  /\ last' = Call("RecordPointer", op, NoRet)
  /\ IF debug /\ IsDoubleOperand(op)
     THEN aborted' = TRUE /\ UNCHANGED pointer_operands_
     ELSE pointer_operands_' = Append(pointer_operands_, op) /\ UNCHANGED aborted
  /\ UNCHANGED <<debug, untagged_operands_, seqVars, moveVars, cacheVars, schedVars, rpoVars>>

RecordPointer(op) ==
  /\ ~aborted /\ calls < MaxPMCalls
  /\ calls' = calls + 1
  /\ last' = Call("RecordPointer", op, NoRet)
  /\ IF IsArgumentSlot(op)
     THEN UNCHANGED <<aborted, pointer_operands_>>
     ELSE IF debug /\ IsDoubleOperand(op)
          THEN aborted' = TRUE /\ UNCHANGED pointer_operands_
          ELSE pointer_operands_' = Append(pointer_operands_, op) /\ UNCHANGED aborted
  /\ UNCHANGED <<debug, untagged_operands_, seqVars, moveVars, cacheVars, schedVars, rpoVars>>

RemovePointer(op) ==
  /\ ~aborted /\ calls < MaxPMCalls
  /\ calls' = calls + 1
  /\ last' = Call("RemovePointer", op, NoRet)
  /\ IF IsArgumentSlot(op)
     THEN UNCHANGED <<aborted, pointer_operands_>>
     ELSE IF debug /\ IsDoubleOperand(op)
          THEN aborted' = TRUE /\ UNCHANGED pointer_operands_
          ELSE pointer_operands_' = RemoveLoop(pointer_operands_, 0, op) /\ UNCHANGED aborted
  /\ UNCHANGED <<debug, untagged_operands_, seqVars, moveVars, cacheVars, schedVars, rpoVars>>

RecordUntagged(op) ==
  /\ ~aborted /\ calls < MaxPMCalls
  /\ calls' = calls + 1
  /\ last' = Call("RecordUntagged", op, NoRet)
  /\ IF IsArgumentSlot(op)
     THEN UNCHANGED <<aborted, untagged_operands_>>
     ELSE IF debug /\ IsDoubleOperand(op)
          THEN aborted' = TRUE /\ UNCHANGED untagged_operands_
          ELSE untagged_operands_' = Append(untagged_operands_, op) /\ UNCHANGED aborted
  /\ UNCHANGED <<debug, pointer_operands_, seqVars, moveVars, cacheVars, schedVars, rpoVars>>

\* a PointerMap as constructed; the sequence's variables stay as constructed
InitPM == Init

NextPM ==
  \/ \E op \in Operands : RecordPointer(op)
  \/ \E op \in Operands : RemovePointer(op)
  \/ \E op \in Operands : RecordUntagged(op)

SpecPM == InitPM /\ [][NextPM]_vars

-----------------------------------------------------------------------------
(* ParallelMove::IsRedundant, instruction.cc:106-111 *)

MoveOperandSet == { o \in Operands : o.addr \in {1, 2, 3} }
Moves == [source : MoveOperandSet, destination : MoveOperandSet, eliminated : BOOLEAN]

\* MoveOperands::IsRedundant: eliminated, or source equal to destination
MoveIsRedundant(move) == move.eliminated \/ Equals(move.source, move.destination)

\* the loop of lines 107-110, entered with i
RECURSIVE IsRedundantLoopFirstOnly(_, _)
IsRedundantLoopFirstOnly(list, i) ==
  IF i >= Len(list) THEN TRUE
  ELSE IF ~MoveIsRedundant(list[i + 1]) THEN FALSE
       ELSE TRUE

RECURSIVE IsRedundantLoop(_, _)
IsRedundantLoop(list, i) ==
  IF i >= Len(list) THEN TRUE
  ELSE IF ~MoveIsRedundant(list[i + 1]) THEN FALSE
       ELSE IsRedundantLoop(list, i + 1)

ParallelMoveIsRedundant(list) == IsRedundantLoop(list, 0)

IsRedundant ==
  /\ last.op = "new"
  /\ last' = Call("IsRedundant", NoArg, ParallelMoveIsRedundant(move_operands_))
  /\ calls' = calls + 1
  /\ UNCHANGED <<debug, aborted, seqVars, pmVars, moveVars, cacheVars, schedVars, rpoVars>>

RECURSIVE SeqsUpTo(_, _)
SeqsUpTo(S, n) ==
  IF n = 0 THEN { << >> }
  ELSE LET shorter == SeqsUpTo(S, n - 1)
       IN shorter \cup { Append(q, x) : q \in shorter, x \in S }

\* a ParallelMove holding any moves the allocator may have added and eliminated
InitMove ==
  /\ debug \in BOOLEAN
  /\ aborted = FALSE
  /\ calls = 0
  /\ last = Call("new", NoArg, NoRet)
  /\ instructions_ = << >>
  /\ pointer_map_ = [i \in Instrs |-> NULL]
  /\ pointer_maps_ = << >>
  /\ parallel_moves_ = << >>
  /\ node_map_ = [n \in Nodes |-> -1]
  /\ next_virtual_register_ = 0
  /\ references_ = {}
  /\ doubles_ = {}
  /\ deoptimization_entries_ = << >>
  /\ code_start_ = [b \in Blocks |-> -1]
  /\ code_end_ = [b \in Blocks |-> -1]
  /\ pointer_operands_ = << >>
  /\ untagged_operands_ = << >>
  /\ move_operands_ \in SeqsUpTo(Moves, MaxMoves)
  /\ NoCache
  /\ NoSchedule
  /\ NoRpo

NextMove == IsRedundant

SpecMove == InitMove /\ [][NextMove]_vars

-----------------------------------------------------------------------------
(* Properties of AddInstruction and of the instruction list *)

\* the entry is a gap object no earlier entry of the list points to, holding no moves
IsFreshEmptyGap(before, entry) ==
  /\ entry.kind = "gap"
  /\ \A i \in 1..Len(before) : before[i].gap # entry.gap
  /\ parallel_moves_'[entry.gap] = NewGap

\* C1: every AddInstruction(instr, block) call that returns, on a sequence of n
\* entries, appends exactly two entries: instr at n and a fresh empty gap at n+1
\* (returning n) when instr is not a control instruction, a fresh empty gap at n
\* and instr at n+1 (returning n+1) when it is; the returned index is that of instr.
C1_AddInstructionLayout ==
  [][ (last'.op = "AddInstruction" /\ ~aborted') =>
        LET n == Len(instructions_)
            instr == last'.arg
            ret == last'.ret
        IN /\ Len(instructions_') = n + 2
           /\ SubSeq(instructions_', 1, n) = instructions_
           /\ instructions_'[ret + 1] = InstrEntry(instr)
           /\ IF IsControl(instr)
              THEN ret = n + 1 /\ IsFreshEmptyGap(instructions_, instructions_'[n + 1])
              ELSE ret = n /\ IsFreshEmptyGap(instructions_, instructions_'[n + 2])
    ]_vars

\* a control instruction was added to a sequence that already held entries
C1_Witness ==
  /\ last.op = "AddInstruction" /\ ~aborted
  /\ IsControl(last.arg)
  /\ last.ret = 3

\* C2: the instruction list is append-only: every index keeps the entry it holds
\* across every call of the build API, and AddGapMove leaves the number of
\* stored entries unchanged.
C2_IndexStability ==
  [][ /\ Len(instructions_') >= Len(instructions_)
      /\ \A i \in 1..Len(instructions_) : instructions_'[i] = instructions_[i]
      /\ (last'.op = "AddGapMove" => Len(instructions_') = Len(instructions_))
    ]_vars

\* a move was deposited into a gap of a sequence holding a control instruction
C2_Witness ==
  /\ last.op = "AddGapMove"
  /\ Len(instructions_) >= 4
  /\ \E i \in 1..Len(instructions_) :
        instructions_[i].kind = "instr" /\ IsControl(instructions_[i].id)

\* C3: GetVirtualRegister(n) for a node that already has an id returns that id and
\* leaves the counter and the node map alone; for a node asked for the first time
\* it returns the number of nodes that got an id before (0 on a fresh sequence),
\* an id no other node holds, and advances the counter by one; an id once given
\* to a node never changes.
C3_VirtualRegisterIdempotentDense ==
  [][ /\ \A n \in Nodes : node_map_[n] # -1 => node_map_'[n] = node_map_[n]
      /\ (last'.op = "GetVirtualRegister" =>
            LET n == last'.arg
                ret == last'.ret
            IN IF node_map_[n] # -1
               THEN /\ ret = node_map_[n]
                    /\ next_virtual_register_' = next_virtual_register_
                    /\ node_map_' = node_map_
               ELSE /\ ret = Cardinality({m \in Nodes : node_map_[m] # -1})
                    /\ \A m \in Nodes : node_map_[m] # -1 => node_map_[m] < ret
                    /\ next_virtual_register_' = next_virtual_register_ + 1
                    /\ node_map_'[n] = ret)
    ]_vars

\* a node asked again, after a second node got its id, still gets id 0
C3_Witness ==
  /\ last.op = "GetVirtualRegister"
  /\ last.ret = 0
  /\ next_virtual_register_ = 2

\* C4: an AddInstruction call that returns, for an instruction that needs a
\* pointer map, appends one new empty PointerMap to pointer_maps_, positioned at
\* the returned index, which is where the instruction itself is stored, and
\* attaches it to the instruction; for an instruction that needs none, the list
\* and every instruction's attached map are unchanged.
C4_PointerMapCreated ==
  [][ (last'.op = "AddInstruction" /\ ~aborted') =>
        LET instr == last'.arg
            ret == last'.ret
            k == Len(pointer_maps_)
        IN IF NeedsPointerMap(instr)
           THEN /\ Len(pointer_maps_') = k + 1
                /\ SubSeq(pointer_maps_', 1, k) = pointer_maps_
                /\ pointer_maps_'[k + 1] =
                     [instruction_position |-> ret,
                      pointer_operands |-> << >>, untagged_operands |-> << >>]
                /\ instructions_'[pointer_maps_'[k + 1].instruction_position + 1]
                     = InstrEntry(instr)
                /\ pointer_map_'[instr] = k + 1
                /\ \A other \in Instrs \ {instr} : pointer_map_'[other] = pointer_map_[other]
           ELSE /\ pointer_maps_' = pointer_maps_
                /\ pointer_map_' = pointer_map_
    ]_vars

\* a control instruction that needs a pointer map got one, behind its gap
C4_Witness ==
  /\ last.op = "AddInstruction" /\ ~aborted
  /\ last.arg = "calljump"
  /\ Len(pointer_maps_) = 2
  /\ pointer_maps_[2].instruction_position = last.ret

\* the entries of pointer_maps_ whose position holds the instruction object instr
MapsOf(instr) ==
  { k \in 1..Len(pointer_maps_) :
      InstructionAt(pointer_maps_[k].instruction_position) = InstrEntry(instr) }

\* C5: pointer_maps_ mirrors the maps attached to stored instructions: the
\* instruction at each entry's position has that entry attached, every stored
\* instruction with a map has exactly one entry, and positions increase strictly
\* along the list.
C5_PointerMapListMirrors ==
  /\ \A k \in 1..Len(pointer_maps_) :
       LET e == InstructionAt(pointer_maps_[k].instruction_position)
       IN e.kind = "instr" /\ pointer_map_[e.id] = k
  /\ \A i \in 1..Len(instructions_) :
       (instructions_[i].kind = "instr" /\ pointer_map_[instructions_[i].id] # NULL)
          => Cardinality(MapsOf(instructions_[i].id)) = 1
  /\ \A j, k \in 1..Len(pointer_maps_) :
       j < k => pointer_maps_[j].instruction_position < pointer_maps_[k].instruction_position

\* C6: AddInstruction for an instruction that needs a pointer map and already has
\* one aborts, creates no PointerMap and leaves the attached map in place.
C6_SecondPointerMapFatal ==
  [][ (/\ last'.op = "AddInstruction"
       /\ NeedsPointerMap(last'.arg)
       /\ pointer_map_[last'.arg] # NULL)
        => (aborted' /\ pointer_maps_' = pointer_maps_ /\ pointer_map_' = pointer_map_)
    ]_vars

-----------------------------------------------------------------------------
(* Properties of PointerMap *)

\* C7: RecordPointer(op) and RecordUntagged(op) change neither set when op is a
\* stack slot with negative index; for any other operand that is not a double
\* the call appends op once to its own set and leaves the other set unchanged.
C7_RecordAppendsOnce ==
  [][ (last'.op \in {"RecordPointer", "RecordUntagged"}) =>
        LET op == last'.arg
            own == IF last'.op = "RecordPointer" THEN pointer_operands_ ELSE untagged_operands_
            own2 == IF last'.op = "RecordPointer" THEN pointer_operands_' ELSE untagged_operands_'
            other == IF last'.op = "RecordPointer" THEN untagged_operands_ ELSE pointer_operands_
            other2 == IF last'.op = "RecordPointer" THEN untagged_operands_' ELSE pointer_operands_'
        IN /\ IsArgumentSlot(op) => (own2 = own /\ other2 = other)
           /\ (~IsArgumentSlot(op) /\ ~IsDoubleOperand(op)) =>
                (own2 = Append(own, op) /\ other2 = other /\ ~aborted')
    ]_vars

\* the same operand object recorded twice gives two entries, and recording an
\* argument slot as untagged afterwards added nothing
C7_Witness ==
  /\ last.op = "RecordUntagged"
  /\ IsArgumentSlot(last.arg)
  /\ untagged_operands_ = << >>
  /\ Len(pointer_operands_) = 2
  /\ pointer_operands_[1] = pointer_operands_[2]

\* C8: neither set of a PointerMap ever holds a double register, a double stack
\* slot or a stack slot with negative index.
C8_NoDoubleNoArgument ==
  \A i \in 1..Len(pointer_operands_ \o untagged_operands_) :
     LET op == (pointer_operands_ \o untagged_operands_)[i]
     IN ~IsDoubleOperand(op) /\ ~IsArgumentSlot(op)

\* C9: RemovePointer(op) leaves in the pointer set exactly the entries not
\* structurally equal to op, in their original order, and leaves the untagged
\* set unchanged.
C9_RemovePointerRemovesAll ==
  [][ (last'.op = "RemovePointer") =>
        LET op == last'.arg
            Keep(x) == ~Equals(x, op)
        IN /\ \A i \in 1..Len(pointer_operands_') : ~Equals(pointer_operands_'[i], op)
           /\ pointer_operands_' = SelectSeq(pointer_operands_, Keep)
           /\ untagged_operands_' = untagged_operands_
    ]_vars

\* a register was removed from a set built by three earlier calls, and an entry
\* for another operand stayed
C9_Witness ==
  /\ last.op = "RemovePointer"
  /\ last.arg.kind = "REGISTER"
  /\ calls = 4
  /\ untagged_operands_ = << >>
  /\ Len(pointer_operands_) = 1
  /\ pointer_operands_[1].kind = "STACK_SLOT"

-----------------------------------------------------------------------------
(* Properties of ParallelMove *)

\* C10: ParallelMove::IsRedundant() returns true exactly when every move that is
\* not eliminated has source structurally equal to destination; in particular
\* it returns true for an empty parallel move.
C10_IsRedundantIff ==
  last.op = "IsRedundant" =>
    /\ last.ret = (\A i \in 1..Len(move_operands_) :
                      ~move_operands_[i].eliminated =>
                          Equals(move_operands_[i].source, move_operands_[i].destination))
    /\ (move_operands_ = << >> => last.ret = TRUE)

\* true for an eliminated move between different operands followed by a move
\* between two equal operand objects
C10_Witness ==
  /\ last.op = "IsRedundant"
  /\ last.ret = TRUE
  /\ Len(move_operands_) = 2
  /\ move_operands_[1].eliminated
  /\ ~Equals(move_operands_[1].source, move_operands_[1].destination)
  /\ ~move_operands_[2].eliminated
  /\ move_operands_[2].source.addr # move_operands_[2].destination.addr

-----------------------------------------------------------------------------
(* Properties of the block ranges *)

\* the block's range [code_start, code_end) is set and not empty
RangeNonEmpty(cs, ce, b) == 0 <= cs[b] /\ cs[b] <= ce[b] - 1

\* the step is a returning call of op with argument arg
Returned(op, arg) == last'.op = op /\ last'.arg = arg /\ ~aborted'

\* C11 (as claimed): EndBlock(b) on a block started by StartBlock(b) leaves
\* 0 <= code_start <= code_end - 1, and that holds in every later state.
C11_RangeNonEmptyForever ==
  [][ \A b \in Blocks :
        /\ (Returned("EndBlock", b) /\ code_start_[b] >= 0)
             => RangeNonEmpty(code_start_', code_end_', b)
        /\ RangeNonEmpty(code_start_, code_end_, b)
             => RangeNonEmpty(code_start_', code_end_', b)
    ]_vars

\* C11 (amended): EndBlock(b) on a block started by StartBlock(b) leaves
\* 0 <= code_start <= code_end - 1; every later call keeps that except a further
\* StartBlock(b), which moves code_start to the end of the list, at or behind
\* code_end.
C11_RangeNonEmptyUntilRestart ==
  [][ \A b \in Blocks :
        /\ (Returned("EndBlock", b) /\ code_start_[b] >= 0)
             => RangeNonEmpty(code_start_', code_end_', b)
        /\ (RangeNonEmpty(code_start_, code_end_, b) /\ ~Returned("StartBlock", b))
             => RangeNonEmpty(code_start_', code_end_', b)
        /\ (Returned("StartBlock", b) /\ code_end_[b] >= 0)
             => (code_start_'[b] >= code_end_'[b]
                 /\ ~RangeNonEmpty(code_start_', code_end_', b))
    ]_vars

\* a block started behind an instruction, filled with one instruction and ended
C11_Witness ==
  /\ last.op = "EndBlock" /\ ~aborted
  /\ code_start_[last.arg] = 2
  /\ code_end_[last.arg] = 6

\* blocks whose code_end was set by EndBlock; blocks started and not yet ended
EndedBlocks(cs, ce) == { b \in Blocks : ce[b] >= 0 }
OpenBlocks(cs, ce) == { b \in Blocks : cs[b] >= 0 /\ ce[b] < 0 }
RangeOf(cs, ce, b) == cs[b]..(ce[b] - 1)

\* the ranges of the ended blocks are disjoint, cover each index below `limit`
\* exactly once, and follow one another: each code_end is `limit` or the
\* code_start of another block
Partitions(cs, ce, limit) ==
  /\ \A a, b \in EndedBlocks(cs, ce) :
        a # b => RangeOf(cs, ce, a) \cap RangeOf(cs, ce, b) = {}
  /\ \A i \in 0..(limit - 1) :
        Cardinality({ b \in EndedBlocks(cs, ce) : i \in RangeOf(cs, ce, b) }) = 1
  /\ \A a \in EndedBlocks(cs, ce) :
        \/ ce[a] = limit
        \/ \E b \in Blocks \ {a} : cs[b] = ce[a]

\* C12 (as claimed): once every started block is ended, the ranges of the ended
\* blocks are pairwise disjoint, every stored index lies in exactly one of them,
\* and each code_end is the code_start of the next started block.
C12_PartitionAfterAnyCalls ==
  OpenBlocks(code_start_, code_end_) = {}
     => Partitions(code_start_, code_end_, size)

\* the layout kept by bracketed use: at most one block is open, the ended blocks
\* partition the indices below the open block's code_start (below the size of
\* the list when no block is open), and every ended range is non-empty
Bracketed(cs, ce, n) ==
  /\ Cardinality(OpenBlocks(cs, ce)) <= 1
  /\ \A b \in EndedBlocks(cs, ce) : RangeNonEmpty(cs, ce, b)
  /\ IF OpenBlocks(cs, ce) = {}
     THEN Partitions(cs, ce, n)
     ELSE \A o \in OpenBlocks(cs, ce) : cs[o] < n /\ Partitions(cs, ce, cs[o])

\* the step follows the bracket discipline: StartBlock(b) for a block not started
\* before while no block is open, AddInstruction and EndBlock(b) while b is open
BracketedStep ==
  /\ ~aborted'
  /\ last'.op = "StartBlock" =>
        /\ OpenBlocks(code_start_, code_end_) = {}
        /\ code_start_[last'.arg] < 0 /\ code_end_[last'.arg] < 0
  /\ last'.op = "AddInstruction" => OpenBlocks(code_start_, code_end_) # {}
  /\ last'.op = "EndBlock" => last'.arg \in OpenBlocks(code_start_, code_end_)

\* C12 (amended): when the calls bracket the blocks one after another, the ranges
\* of the ended blocks are pairwise disjoint and non-empty, every index outside
\* the open block lies in exactly one of them, and each code_end is the
\* code_start of the next started block.
C12_PartitionWhenBracketed ==
  [][ (Bracketed(code_start_, code_end_, size) /\ BracketedStep)
        => Bracketed(code_start_', code_end_', Len(instructions_'))
    ]_vars

\* two blocks bracketed one after the other partition a list of four entries
C12_Witness ==
  /\ last.op = "EndBlock" /\ ~aborted
  /\ EndedBlocks(code_start_, code_end_) = Blocks
  /\ size = 4
  /\ Bracketed(code_start_, code_end_, size)

-----------------------------------------------------------------------------
(* Properties of GetBasicBlock *)

\* index i lies in the range of the ended block b
InRangeOf(b, i) ==
  code_start_[b] >= 0 /\ code_end_[b] >= 0 /\ code_start_[b] <= i /\ i < code_end_[b]

\* the scan from i finds the block start stored at b.code_start, owned by b
FindsBlockStartOf(b, i) ==
  /\ GetBasicBlockLoop(i) = b
  /\ InstructionAt(code_start_[b]).kind = "blockstart"
  /\ InstructionAt(code_start_[b]).block = b

\* C13 (as claimed): for every ended block b and every index i of its range,
\* GetBasicBlock(i) returns b, stopping at the block start stored at
\* b.code_start without reading below index 0.
C13_GetBasicBlockInRange ==
  /\ \A b \in Blocks, i \in 0..(size - 1) : InRangeOf(b, i) => FindsBlockStartOf(b, i)
  /\ last.op = "GetBasicBlock" =>
        \A b \in Blocks : InRangeOf(b, last.arg) => (~aborted /\ last.ret = b)

\* no StartBlock call fell between StartBlock(b) and EndBlock(b): b's range
\* holds no block start behind its first entry
NoBlockStartInside(b) ==
  \A j \in (code_start_[b] + 1)..(code_end_[b] - 1) : ~IsBlockStart(InstructionAt(j))

\* C13 (amended): for every ended block b with no StartBlock call between
\* StartBlock(b) and EndBlock(b), and every index i of its range,
\* GetBasicBlock(i) returns b, stopping at the block start stored at
\* b.code_start without reading below index 0.
C13_GetBasicBlockInPlainRange ==
  /\ \A b \in Blocks, i \in 0..(size - 1) :
        (InRangeOf(b, i) /\ NoBlockStartInside(b)) => FindsBlockStartOf(b, i)
  /\ last.op = "GetBasicBlock" =>
        \A b \in Blocks :
           (InRangeOf(b, last.arg) /\ NoBlockStartInside(b)) => (~aborted /\ last.ret = b)

\* the block of the gap behind an instruction was asked for: the scan went back
\* three entries to the block start at index 0
C13_Witness ==
  /\ last.op = "GetBasicBlock" /\ ~aborted
  /\ last.arg = 3
  /\ code_start_[last.ret] = 0
  /\ code_end_[last.ret] = 4
  /\ InstructionAt(2).kind = "instr"

-----------------------------------------------------------------------------
(* Properties of the frame state descriptors, the register classes and
   AddGapMove *)

\* C14: the k-th call of AddFrameStateDescriptor returns id k, and
\* GetFrameStateDescriptor(k) returns the descriptor of that call in every later
\* state; GetFrameStateDescriptorCount is the number of AddFrameStateDescriptor
\* calls so far (0 at construction, one more with each such call and with no
\* other); no entry is removed or overwritten.
C14_FrameStateDescriptorTable ==
  /\ GetFrameStateDescriptorCount = 0
  /\ [][ LET added == last'.op = "AddFrameStateDescriptor"
         IN /\ added => /\ last'.ret = GetFrameStateDescriptorCount
                        /\ deoptimization_entries_'[last'.ret + 1] = last'.arg
            /\ Len(deoptimization_entries_') =
                  GetFrameStateDescriptorCount + (IF added THEN 1 ELSE 0)
            /\ \A state_id \in 0..(GetFrameStateDescriptorCount - 1) :
                  deoptimization_entries_'[state_id + 1] = GetFrameStateDescriptor(state_id)
       ]_vars

\* the second descriptor was added, with id 1, behind a different first one
C14_Witness ==
  /\ last.op = "AddFrameStateDescriptor"
  /\ last.ret = 1
  /\ GetFrameStateDescriptorCount = 2
  /\ GetFrameStateDescriptor(1) = last.arg
  /\ GetFrameStateDescriptor(0) # last.arg

\* C15: IsReference(v) holds iff MarkAsReference(v) was called earlier, and
\* IsDouble(v) iff MarkAsDouble(v) was: both sets start empty, a call puts its
\* id into its set, and no step changes either set in any other way (no
\* removal, and marking one set leaves the other unchanged).
C15_ClassificationMonotonic ==
  /\ \A v \in VirtualRegisters : ~IsReference(v) /\ ~IsDouble(v)
  /\ [][ \A v \in VirtualRegisters :
           /\ (v \in references_') <=>
                 (IsReference(v) \/ (last'.op = "MarkAsReference" /\ last'.arg = v))
           /\ (v \in doubles_') <=>
                 (IsDouble(v) \/ (last'.op = "MarkAsDouble" /\ last'.arg = v))
       ]_vars

\* a second id was marked as reference while a double was recorded
C15_Witness ==
  /\ last.op = "MarkAsReference"
  /\ references_ = VirtualRegisters
  /\ doubles_ # {}

Disjoint(refs, dbls) == refs \cap dbls = {}

\* C16 (as claimed): no virtual register is both a reference and a double.
C16_ReferencesDoublesDisjoint == Disjoint(references_, doubles_)

\* a call marks an id that is already in the other set
MarksBothWays(op, arg) ==
  \/ op = "MarkAsReference" /\ IsDouble(arg)
  \/ op = "MarkAsDouble" /\ IsReference(arg)

\* C16 (amended): the two sets are disjoint at construction and stay disjoint
\* exactly until a caller marks an id that is in the other set; the sequence
\* does not prevent that call, and from then on the sets overlap.
C16_DisjointUnlessMarkedBothWays ==
  /\ Disjoint(references_, doubles_)
  /\ [][ Disjoint(references_', doubles_') <=>
            (Disjoint(references_, doubles_) /\ ~MarksBothWays(last'.op, last'.arg)) ]_vars

\* one id is a reference, the other a double
C16_Witness ==
  /\ last.op = "MarkAsDouble"
  /\ references_ # {} /\ doubles_ # {}
  /\ Disjoint(references_, doubles_)

\* C17: AddGapMove(index, from, to) on a gap appends the move from -> to to the
\* START slot of that gap, which exists afterwards, and changes neither the
\* other three slots of the gap, nor any other gap, nor the instruction list.
C17_AddGapMoveFrame ==
  [][ last'.op = "AddGapMove" =>
        LET index == last'.arg.index
            gap == GapAt(index)
        IN /\ IsGapMoves(InstructionAt(index))
           /\ parallel_moves_'[gap]["START"].created
           /\ parallel_moves_'[gap]["START"].moves =
                 Append(parallel_moves_[gap]["START"].moves,
                        [source |-> last'.arg.from, destination |-> last'.arg.to])
           /\ \A pos \in InnerPositions \ {"START"} :
                 parallel_moves_'[gap][pos] = parallel_moves_[gap][pos]
           /\ DOMAIN parallel_moves_' = DOMAIN parallel_moves_
           /\ \A other \in DOMAIN parallel_moves_ \ {gap} :
                 parallel_moves_'[other] = parallel_moves_[other]
           /\ instructions_' = instructions_
    ]_vars

\* a second move was appended to the START slot of one of two gaps
C17_Witness ==
  /\ last.op = "AddGapMove"
  /\ Len(parallel_moves_) = 2
  /\ Len(parallel_moves_[GapAt(last.arg.index)]["START"].moves) = 2
  /\ parallel_moves_[GapAt(last.arg.index)]["START"].moves[2] =
        [source |-> last.arg.from, destination |-> last.arg.to]

-----------------------------------------------------------------------------
(* Properties of the operand caches *)

ArraysOf(kind) == { a \in DOMAIN arrays : arrays[a].kind = kind }

\* C18: whatever the interleaving of the threads calling SetUpCaches, every
\* cache array is allocated at most once, and the one array allocated is the
\* one the cache pointer holds (no second array overwrites or leaks the first).
C18_CacheAllocatedOnce ==
  \A kind \in OperandKinds :
     /\ Cardinality(ArraysOf(kind)) <= 1
     /\ ArraysOf(kind) \subseteq {cache[kind]}

-----------------------------------------------------------------------------
(* Properties of the Schedule *)

Occurrences(list, x) == Cardinality({ n \in DOMAIN list : list[n] = x })

\* C19: successor and predecessor lists are mirrored: for all blocks A and B, B
\* occurs in A's successor list as often as A occurs in B's predecessor list;
\* a block just returned by NewBasicBlock has empty successor and predecessor
\* lists.
C19_SuccessorsMirrorPredecessors ==
  /\ \A A \in BlockIds, B \in BlockIds :
        Occurrences(all_blocks_[A].successors_, B) =
           Occurrences(all_blocks_[B].predecessors_, A)
  /\ last.op = "NewBasicBlock" =>
        /\ all_blocks_[last.ret].successors_ = << >>
        /\ all_blocks_[last.ret].predecessors_ = << >>

\* a branch with both targets the same block: two mirrored edges to it
C19_Witness ==
  /\ last.op = "AddBranch" /\ ~aborted
  /\ last.arg.tblock = last.arg.fblock
  /\ last.arg.tblock # last.arg.block
  /\ Occurrences(all_blocks_[last.arg.block].successors_, last.arg.tblock) = 2
  /\ Occurrences(all_blocks_[last.arg.tblock].predecessors_, last.arg.block) = 2

\* the blocks whose node list holds the node
BlocksListing(node) ==
  { b \in BlockIds : Occurrences(all_blocks_[b].nodes_, node) > 0 }

\* the node of a PlanNode or AddNode call is already scheduled: it has a block
\* (for AddNode: another block than the one planned, or it is already listed)
AlreadyScheduled(op, block, node) ==
  \/ op = "PlanNode" /\ BlockOf(node) # NULL
  \/ op = "AddNode" /\ (BlockOf(node) \notin {NULL, block} \/ BlocksListing(node) # {})

\* C20: every node is listed by at most one block, the block it is mapped to;
\* a PlanNode or AddNode call for an already scheduled node aborts and leaves
\* the node-to-block mapping (and the node lists) unchanged, and no other
\* PlanNode or AddNode call aborts.
C20_NodeInOneBlock ==
  /\ [](\A node \in Nodes :
          /\ Cardinality(BlocksListing(node)) <= 1
          /\ BlocksListing(node) \subseteq {BlockOf(node)})
  /\ [][ last'.op \in {"PlanNode", "AddNode"} =>
           IF AlreadyScheduled(last'.op, last'.arg.block, last'.arg.node)
           THEN aborted' /\ nodeid_to_block_' = nodeid_to_block_ /\ all_blocks_' = all_blocks_
           ELSE ~aborted' /\ nodeid_to_block_'[last'.arg.node] = last'.arg.block
       ]_vars

\* AddNode for a node that another block lists has aborted
C20_Witness ==
  /\ last.op = "AddNode" /\ aborted
  /\ BlocksListing(last.arg.node) # {}
  /\ last.arg.block \notin BlocksListing(last.arg.node)
  /\ BlockOf(last.arg.node) # last.arg.block

-----------------------------------------------------------------------------
(* Properties of the terminating calls *)

TerminalKinds == {"kGoto", "kBranch", "kReturn", "kThrow"}
TerminatingCalls == {"AddGoto", "AddBranch", "AddReturn", "AddThrow"}

\* C21: the control kind of a block is kNone when NewBasicBlock returns it; it
\* changes only from kNone, to one of kGoto, kBranch, kReturn, kThrow, and
\* never again; a terminating call on a block whose kind is no longer kNone
\* aborts and changes no block (no successor edge is added).
C21_ControlSetOnce ==
  /\ [](last.op = "NewBasicBlock" => all_blocks_[last.ret].control_ = "kNone")
  /\ [][ /\ \A b \in BlockIds :
              all_blocks_'[b].control_ # all_blocks_[b].control_ =>
                 /\ all_blocks_[b].control_ = "kNone"
                 /\ all_blocks_'[b].control_ \in TerminalKinds
         /\ last'.op \in TerminatingCalls =>
              IF all_blocks_[last'.arg.block].control_ # "kNone"
              THEN aborted' /\ all_blocks_' = all_blocks_
              ELSE ~aborted' /\ all_blocks_'[last'.arg.block].control_ \in TerminalKinds
       ]_vars

\* AddGoto on a block that AddReturn had terminated has aborted
C21_Witness ==
  /\ last.op = "AddGoto" /\ aborted
  /\ all_blocks_[last.arg.block].control_ = "kReturn"
  /\ all_blocks_[last.arg.block].successors_ = << >>

\* the successor and predecessor lists after the edges block -> targets[1],
\* block -> targets[2], ... were added behind the lists `before` held:
\* only_new drops what block's successor list held before
EdgesAdded(before, after, block, targets, only_new) ==
  /\ after[block].successors_ =
        (IF only_new THEN << >> ELSE before[block].successors_) \o targets
  /\ \A b \in DOMAIN before :
        /\ b # block => after[b].successors_ = before[b].successors_
        /\ after[b].predecessors_ =
              before[b].predecessors_ \o
                 [n \in 1..Occurrences(targets, b) |-> block]

\* what a terminating call that returns has done to its block
Terminated(before, after, op, arg, only_new) ==
  /\ op = "AddGoto" =>
        /\ after[arg.block].control_ = "kGoto"
        /\ EdgesAdded(before, after, arg.block, <<arg.succ>>, only_new)
  /\ op = "AddBranch" =>
        /\ after[arg.block].control_ = "kBranch"
        /\ after[arg.block].control_input_ = arg.branch
        /\ EdgesAdded(before, after, arg.block, <<arg.tblock, arg.fblock>>, only_new)
  /\ op \in {"AddReturn", "AddThrow"} =>
        /\ after[arg.block].control_ = (IF op = "AddReturn" THEN "kReturn" ELSE "kThrow")
        /\ after[arg.block].control_input_ = arg.input
        /\ EdgesAdded(before, after, arg.block, << >>, FALSE)

-----------------------------------------------------------------------------
(* Properties of the loops and the RPO list *)

\* C22: for a loop header h with rpo_number R and loop_end E and every block
\* b, h.LoopContains(b) is true iff R <= b.rpo_number < E; LoopContains(h) is
\* true whenever R < E, and a block whose rpo_number is E is not contained.
C22_LoopContainsIffInRange ==
  [][ last'.op = "LoopContains" =>
        LET h == last'.arg.header
            b == last'.arg.block
            R == rpo_number_[h]
            E == loop_end_[h]
        IN /\ E >= 0
           /\ last'.ret <=> (R <= rpo_number_[b] /\ rpo_number_[b] < E)
           /\ (b = h /\ R < E) => last'.ret
           /\ rpo_number_[b] = E => ~last'.ret
    ]_vars

\* a block numbered with the header's loop_end was asked for and is outside
C22_Witness ==
  /\ last.op = "LoopContains"
  /\ last.ret = FALSE
  /\ rpo_number_[last.arg.header] >= 0
  /\ rpo_number_[last.arg.header] < loop_end_[last.arg.header]
  /\ rpo_number_[last.arg.block] = loop_end_[last.arg.header]

Positions == 0..(BasicBlockCount - 1)
\* the positions of the RPO list whose block has another rpo_number
Mismatches == { i \in Positions : rpo_number_[BlockAt(i)] # i }
\* the positions whose block has no valid instruction range, fatal in a debug
\* build when the dump asks for first_instruction_index()
BadRanges == { i \in Positions : debug /\ ~IndexDchecksHold(BlockAt(i)) }
First(positions) == CHOOSE i \in positions : \A j \in positions : i <= j

\* what a dump has written once the blocks before position k are through
RECURSIVE Printed(_)
Printed(k) ==
  IF k = 0 THEN << >>
  ELSE Printed(k - 1) \o <<Header(BlockAt(k - 1))>> \o Lines(BlockAt(k - 1))

Headers(os) == { n \in DOMAIN os : os[n].item = "RPO#" }

-----------------------------------------------------------------------------
(* Properties of the life cycle of the operand caches *)

\* the cache of the kind is set up: its array is live and element i is the
\* operand of that kind with index i
IsSetUp(c, heap, kind) ==
  /\ c[kind] # NULL
  /\ ~heap[c[kind]].deleted
  /\ \A i \in 0..(kNumCachedOperands - 1) :
        /\ heap[c[kind]].elems[i].kind = kind
        /\ heap[c[kind]].elems[i].index = i

\* C24: on one thread, (a) no step of a SetUpCaches call changes a cache that
\* is set up: it keeps its array; (b) when SetUpCaches returns, element i of
\* every cache has the cache's kind and index i, also after a tear-down (the
\* rebuilt cache has the same contents); (c) TearDownCaches leaves every
\* cache pointer NULL and every array it pointed to released, and changes
\* nothing when no cache is set up.
C24_CacheLifeCycle ==
  [][ LET tearDown == setups' # setups /\ pc' = pc
          returns == pc[MainThread] # "idle" /\ pc'[MainThread] = "idle"
      IN /\ \A kind \in OperandKinds :
              (IsSetUp(cache, arrays, kind) /\ ~tearDown) =>
                 /\ cache'[kind] = cache[kind]
                 /\ arrays'[cache[kind]] = arrays[cache[kind]]
         /\ returns => \A kind \in OperandKinds : IsSetUp(cache', arrays', kind)
         /\ tearDown =>
              /\ last'.op = "TearDownCaches" /\ ~aborted'
              /\ \A kind \in OperandKinds :
                    /\ cache'[kind] = NULL
                    /\ cache[kind] # NULL => arrays'[cache[kind]].deleted
              /\ (\A kind \in OperandKinds : cache[kind] = NULL) => arrays' = arrays
    ]_vars

\* set up, torn down and set up again: the second pair of arrays is live and
\* holds the same operands as the first, which is released
C24_Witness ==
  /\ pc[MainThread] = "idle"
  /\ Len(arrays) = 2 * Len(OperandList)
  /\ \A kind \in OperandKinds :
        /\ IsSetUp(cache, arrays, kind)
        /\ \E a \in DOMAIN arrays :
              /\ arrays[a].deleted /\ arrays[a].kind = kind
              /\ arrays[a].elems = arrays[cache[kind]].elems

-----------------------------------------------------------------------------
(* Properties of the block terminator *)

\* the indices from code_start on that hold a control instruction
ControlsFrom(start) ==
  { j \in start..(size - 1) :
       InstructionAt(j).kind = "instr" /\ IsControl(InstructionAt(j).id) }

\* EndBlock(b) closes a block built as StartBlock(b), non-control
\* instructions, one control instruction: b is open, no other StartBlock was
\* called since, and the latest call added the only control instruction
ClosesTerminatedBlock(b) ==
  /\ last'.op = "EndBlock" /\ last'.arg = b /\ ~aborted'
  /\ code_start_[b] >= 0 /\ code_end_[b] < 0
  /\ \A j \in (code_start_[b] + 1)..(size - 1) : ~IsBlockStart(InstructionAt(j))
  /\ last.op = "AddInstruction" /\ IsControl(last.arg)
  /\ Cardinality(ControlsFrom(code_start_[b])) = 1

\* the layout of an ended block built that way: its last entry is the control
\* instruction, behind a gap of the block
EndsWithTerminator(b) ==
  /\ code_start_[b] >= 0 /\ code_start_[b] <= code_end_[b] - 2
  /\ code_end_[b] <= size
  /\ NoBlockStartInside(b)
  /\ InstructionAt(code_end_[b] - 1).kind = "instr"
  /\ IsControl(InstructionAt(code_end_[b] - 1).id)
  /\ InstructionAt(code_end_[b] - 2).kind = "gap"
  /\ InstructionAt(code_start_[b]).kind = "blockstart"
  /\ InstructionAt(code_start_[b]).block = b

\* the gaps stored at code_end of b or behind it
GapsBehind(b) == { g \in code_end_[b]..(size - 1) : IsGapMoves(InstructionAt(g)) }

\* the index lies in the range of a block started at or behind code_end of b
\* (a range still open reaches to the end of the list)
InLaterBlock(b, g) ==
  \E c \in Blocks \ {b} :
     /\ code_start_[c] >= code_end_[b]
     /\ code_start_[c] <= g
     /\ (code_end_[c] < 0 \/ g < code_end_[c])

\* EndBlock leaves the control instruction at code_end - 1 behind a gap of the
\* block at code_end - 2, and no gap of the block's range behind it
TerminatorLaidOut ==
  \A b \in Blocks :
     ClosesTerminatedBlock(b) =>
        /\ InstructionAt(code_end_'[b] - 1) = InstrEntry(last.arg)
        /\ InstructionAt(code_end_'[b] - 2).kind = "gap"
        /\ code_start_'[b] <= code_end_'[b] - 2
        /\ \A j \in code_start_'[b]..(code_end_'[b] - 1) :
              IsGapMoves(InstructionAt(j)) => j < code_end_'[b] - 1
        /\ instructions_' = instructions_

\* C26 (as claimed): a block built as StartBlock(b), non-control instructions,
\* one control instruction, EndBlock(b) has the control instruction at
\* code_end - 1 and a gap of its range at code_end - 2, no gap of its range
\* follows the terminator, and every gap at code_end or behind lies in the
\* range of a later block.
C26_GapsBehindInLaterBlock ==
  /\ [][TerminatorLaidOut]_vars
  /\ [](\A b \in Blocks :
          EndsWithTerminator(b) => \A g \in GapsBehind(b) : InLaterBlock(b, g))

\* C26 (amended): the same layout; every gap at code_end or behind lies
\* outside b's range, and in the range of a later block when the blocks are
\* built one after another with every instruction inside a bracket.
C26_GapsBehindInLaterBlockWhenBracketed ==
  /\ [][TerminatorLaidOut]_vars
  /\ [](\A b \in Blocks :
          EndsWithTerminator(b) =>
             \A g \in GapsBehind(b) :
                /\ ~InRangeOf(b, g)
                /\ Bracketed(code_start_, code_end_, size) => InLaterBlock(b, g))

\* a block ended behind its control instruction, and the next block has been
\* started: its block start and gap lie behind the terminator
C26_Witness ==
  /\ last.op = "StartBlock" /\ ~aborted
  /\ Bracketed(code_start_, code_end_, size)
  /\ \E b \in Blocks \ {last.arg} :
        /\ EndsWithTerminator(b)
        /\ code_end_[b] = 4
        /\ GapsBehind(b) = {4, 5}
        /\ \A g \in GapsBehind(b) : InLaterBlock(b, g)

====
